---------------------------- MODULE Spec2Model ----------------------------
(***************************************************************************)
(* A model of the rubric backend (backend/main.py): the process-wide       *)
(* rubric cache parsed_rubrics, the request handlers parse_rubric,         *)
(* score_essay and score_essay_pdf, and the text pipeline they run on      *)
(* every reply of the completion oracle (fence stripping, the regular      *)
(* expression rewrites, json.loads, validation, clamping).                 *)
(*                                                                         *)
(* Text is a sequence of one-character strings, so that the rewrites and   *)
(* the JSON parser work on what the oracle wrote, character by character.  *)
(* The handlers are `async def` functions that never await anything that   *)
(* suspends (generate_content is a blocking call), so on the event loop    *)
(* each request runs from start to end without another request in between: *)
(* one action per request.                                                 *)
(***************************************************************************)
EXTENDS Integers, Sequences, FiniteSets, TLC

(***************************************************************************)
(* Characters                                                              *)
(***************************************************************************)
Digits == <<"0", "1", "2", "3", "4", "5", "6", "7", "8", "9">>

DigitSet == {Digits[k] : k \in 1..10}

DigitVal(c) == (CHOOSE k \in 1..10 : Digits[k] = c) - 1

Letters ==
  {"a","b","c","d","e","f","g","h","i","j","k","l","m","n","o","p","q","r","s",
   "t","u","v","w","x","y","z","A","B","C","D","E","F","G","H","I","J","K","L",
   "M","N","O","P","Q","R","S","T","U","V","W","X","Y","Z"}

\* \w of Python's re on str: letters, digits and the underscore
WordChars == Letters \cup DigitSet \cup {"_"}

\* what str.strip() removes and what json's WHITESPACE skips, among the
\* characters the oracle's replies are written in
Whitespace == {" ", "\n", "\t", "\r"}

DQ == "\""

SQ == "'"

BS == "\\"

(***************************************************************************)
(* str helpers                                                             *)
(***************************************************************************)
\* s[i:] of Python, i counted from 0
DropFirst(s, n) == IF n >= Len(s) THEN << >> ELSE SubSeq(s, n + 1, Len(s))

\* s[:-n]
DropLast(s, n) == IF n >= Len(s) THEN << >> ELSE SubSeq(s, 1, Len(s) - n)

\* s[i..] starts with p (i is a 1-based position)
MatchAt(s, i, p) ==
  /\ i >= 1
  /\ i + Len(p) - 1 <= Len(s)
  /\ \A k \in 1..Len(p) : s[i + k - 1] = p[k]

startswith(s, p) == MatchAt(s, 1, p)

endswith(s, p) == MatchAt(s, Len(s) - Len(p) + 1, p)

RECURSIVE lstrip(_)
lstrip(s) == IF s # << >> /\ Head(s) \in Whitespace THEN lstrip(Tail(s)) ELSE s

RECURSIVE rstrip(_)
rstrip(s) ==
  IF s # << >> /\ s[Len(s)] \in Whitespace THEN rstrip(DropLast(s, 1)) ELSE s

strip(s) == rstrip(lstrip(s))

\* str.find(c) and str.rfind(c), as 1-based positions, 0 when absent
find(s, c) ==
  IF \E k \in 1..Len(s) : s[k] = c
  THEN CHOOSE k \in 1..Len(s) : s[k] = c /\ \A j \in 1..(k - 1) : s[j] # c
  ELSE 0

rfind(s, c) ==
  IF \E k \in 1..Len(s) : s[k] = c
  THEN CHOOSE k \in 1..Len(s) : s[k] = c /\ \A j \in (k + 1)..Len(s) : s[j] # c
  ELSE 0

\* the first position >= i holding c, Len(s) + 1 when there is none
NextAt(s, i, c) ==
  IF \E k \in i..Len(s) : s[k] = c
  THEN CHOOSE k \in i..Len(s) : s[k] = c /\ \A j \in i..(k - 1) : s[j] # c
  ELSE Len(s) + 1

\* the end of the run of \w characters that starts at i (i - 1 when s[i] is
\* no word character)
WordEnd(s, i) ==
  IF \E k \in i..Len(s) : s[k] \notin WordChars
  THEN (CHOOSE k \in i..Len(s) :
          s[k] \notin WordChars /\ \A j \in i..(k - 1) : s[j] \in WordChars) - 1
  ELSE Len(s)

\* the backtick (a string of its own: the character cannot be written in a
\* TLA+ string)
BT == "BACKTICK"

Fence == <<BT, BT, BT>>

FenceJson == Fence \o <<"j", "s", "o", "n">>

\* main.py 175-182 and 339-346: strip, drop a leading ```json, a leading ```,
\* a trailing ```, strip
StripFences(raw) ==
  LET a == strip(raw)
      b == IF startswith(a, FenceJson) THEN DropFirst(a, 7) ELSE a
      c == IF startswith(b, Fence) THEN DropFirst(b, 3) ELSE b
      d == IF endswith(c, Fence) THEN DropLast(c, 3) ELSE c
  IN  strip(d)

(***************************************************************************)
(* The rewrites of main.py 188-192 and 351-355, and the single-quote fix   *)
(* of 202-204 and 371-372. re.sub scans left to right and replaces the     *)
(* non-overlapping matches.                                                *)
(***************************************************************************)
\* re.sub(r'\b(\w+):', r'"\1":', s). A match starts where a run of word
\* characters starts (\b before a \w), takes the whole run (greedy, and a
\* shorter run is followed by a word character, never by ':') and needs ':'
\* right after it.
BareKeyAt(s, i) ==
  /\ s[i] \in WordChars
  /\ i = 1 \/ s[i - 1] \notin WordChars
  /\ WordEnd(s, i) < Len(s)
  /\ s[WordEnd(s, i) + 1] = ":"

RECURSIVE QuoteKeysFrom(_, _)
QuoteKeysFrom(s, i) ==
  IF \E k \in i..Len(s) : BareKeyAt(s, k)
  THEN LET m == CHOOSE k \in i..Len(s) :
                  BareKeyAt(s, k) /\ \A j \in i..(k - 1) : ~BareKeyAt(s, j)
           e == WordEnd(s, m)
       IN  SubSeq(s, i, m - 1) \o <<DQ>> \o SubSeq(s, m, e) \o <<DQ, ":">>
             \o QuoteKeysFrom(s, e + 2)
  ELSE SubSeq(s, i, Len(s))

QuoteBareKeys(s) == QuoteKeysFrom(s, 1)

\* re.sub(r'""([^"]+)"":', r'"\1":', s). After the two quotes the group is
\* the run up to the next quote (it cannot stop earlier: a quote must
\* follow it), which must be non-empty and followed by "":
DoubledKeyAt(s, i) ==
  /\ MatchAt(s, i, <<DQ, DQ>>)
  /\ NextAt(s, i + 2, DQ) > i + 2
  /\ MatchAt(s, NextAt(s, i + 2, DQ), <<DQ, DQ, ":">>)

RECURSIVE UndoubleFrom(_, _)
UndoubleFrom(s, i) ==
  IF \E k \in i..Len(s) : DoubledKeyAt(s, k)
  THEN LET m == CHOOSE k \in i..Len(s) :
                  DoubledKeyAt(s, k) /\ \A j \in i..(k - 1) : ~DoubledKeyAt(s, j)
           q == NextAt(s, m + 2, DQ)
       IN  SubSeq(s, i, m - 1) \o <<DQ>> \o SubSeq(s, m + 2, q - 1) \o <<DQ, ":">>
             \o UndoubleFrom(s, q + 3)
  ELSE SubSeq(s, i, Len(s))

UndoubleKeys(s) == UndoubleFrom(s, 1)

\* re.sub(r'"\\"([^"]+)\\"":', r'"\1":', s): "\"key\"": becomes "key":
\* The group runs up to the backslash that stands before the next quote.
EscapedKeyAt(s, i) ==
  /\ MatchAt(s, i, <<DQ, BS, DQ>>)
  /\ NextAt(s, i + 3, DQ) - 2 >= i + 3
  /\ MatchAt(s, NextAt(s, i + 3, DQ) - 1, <<BS, DQ, DQ, ":">>)

RECURSIVE UnescapeFrom(_, _)
UnescapeFrom(s, i) ==
  IF \E k \in i..Len(s) : EscapedKeyAt(s, k)
  THEN LET m == CHOOSE k \in i..Len(s) :
                  EscapedKeyAt(s, k) /\ \A j \in i..(k - 1) : ~EscapedKeyAt(s, j)
           q == NextAt(s, m + 3, DQ)
       IN  SubSeq(s, i, m - 1) \o <<DQ>> \o SubSeq(s, m + 3, q - 2) \o <<DQ, ":">>
             \o UnescapeFrom(s, q + 3)
  ELSE SubSeq(s, i, Len(s))

UnescapeKeys(s) == UnescapeFrom(s, 1)

\* the three rewrites, applied to every reply before the first json.loads
FixKeys(s) == UnescapeKeys(UndoubleKeys(QuoteBareKeys(s)))

\* s.replace("'", '"')
ReplaceQuotes(s) == [k \in 1..Len(s) |-> IF s[k] = SQ THEN DQ ELSE s[k]]

\* re.sub(r'(\w)"(\w)', r"\1'\2", s): a match takes three characters
ApostropheAt(s, i) ==
  /\ i + 2 <= Len(s)
  /\ s[i] \in WordChars
  /\ s[i + 1] = DQ
  /\ s[i + 2] \in WordChars

RECURSIVE ApostropheFrom(_, _)
ApostropheFrom(s, i) ==
  IF \E k \in i..Len(s) : ApostropheAt(s, k)
  THEN LET m == CHOOSE k \in i..Len(s) :
                  ApostropheAt(s, k) /\ \A j \in i..(k - 1) : ~ApostropheAt(s, j)
       IN  SubSeq(s, i, m - 1) \o <<s[m], SQ, s[m + 2]>> \o ApostropheFrom(s, m + 3)
  ELSE SubSeq(s, i, Len(s))

SingleQuoteFix(s) == ApostropheFrom(ReplaceQuotes(s), 1)

(***************************************************************************)
(* json.loads (json/decoder.py, json/scanner.py of the standard library),  *)
(* on the JSON the replies are written in: objects, arrays, strings with   *)
(* the one-character escapes, integers and decimal fractions, true, false  *)
(* and null. (No reply of the model holds a \u escape, an exponent or      *)
(* NaN/Infinity.)                                                          *)
(* A value is a record tagged by t; a dict keeps its keys in insertion     *)
(* order, a repeated key keeps its place and takes the later value.        *)
(***************************************************************************)
JNull == [t |-> "null"]

JBool(b) == [t |-> "bool", b |-> b]

JInt(n) == [t |-> "int", n |-> n]

RECURSIVE DropZeros(_)
DropZeros(ds) ==
  IF ds # << >> /\ ds[Len(ds)] = "0" THEN DropZeros(DropLast(ds, 1)) ELSE ds

\* a float: n is the value truncated toward zero, frac the digits after the
\* point up to the last one that is not 0 (2.50 and 2.5 are one value)
JFloat(n, frac) == [t |-> "float", n |-> n, frac |-> DropZeros(frac)]

JStr(s) == [t |-> "str", s |-> s]

JList(items) == [t |-> "list", items |-> items]

JDict(keys, vals) == [t |-> "dict", keys |-> keys, vals |-> vals]

ParseError == [ok |-> FALSE]

Parsed(v, next) == [ok |-> TRUE, val |-> v, next |-> next]

\* d[k] = v
DictPut(d, k, v) ==
  IF \E j \in 1..Len(d.keys) : d.keys[j] = k
  THEN LET j == CHOOSE j \in 1..Len(d.keys) : d.keys[j] = k
       IN  JDict(d.keys, [d.vals EXCEPT ![j] = v])
  ELSE JDict(Append(d.keys, k), Append(d.vals, v))

\* k in d, d[k]
DictHas(d, k) == \E j \in 1..Len(d.keys) : d.keys[j] = k

DictGet(d, k) == d.vals[CHOOSE j \in 1..Len(d.keys) : d.keys[j] = k]

RECURSIVE SkipWs(_, _)
SkipWs(s, i) ==
  IF i <= Len(s) /\ s[i] \in Whitespace THEN SkipWs(s, i + 1) ELSE i

RECURSIVE DigitsEnd(_, _)
DigitsEnd(s, i) ==
  IF i <= Len(s) /\ s[i] \in DigitSet THEN DigitsEnd(s, i + 1) ELSE i - 1

RECURSIVE DigitsValue(_)
DigitsValue(ds) ==
  IF ds = << >> THEN 0
  ELSE 10 * DigitsValue(DropLast(ds, 1)) + DigitVal(ds[Len(ds)])

\* BACKSLASH of json/decoder.py
Escapes ==
  (DQ :> DQ) @@ (BS :> BS) @@ ("/" :> "/") @@ ("b" :> "BACKSPACE")
    @@ ("f" :> "\f") @@ ("n" :> "\n") @@ ("r" :> "\r") @@ ("t" :> "\t")

\* py_scanstring with strict=True, from the position after the opening quote:
\* a control character inside a string is an error
RECURSIVE ScanString(_, _, _)
ScanString(s, i, acc) ==
  IF i > Len(s) THEN ParseError
  ELSE IF s[i] = DQ THEN Parsed(acc, i + 1)
  ELSE IF s[i] = BS
       THEN IF i + 1 <= Len(s) /\ s[i + 1] \in DOMAIN Escapes
            THEN ScanString(s, i + 2, Append(acc, Escapes[s[i + 1]]))
            ELSE ParseError
  ELSE IF s[i] \in {"\n", "\t", "\r", "\f"} THEN ParseError
  ELSE ScanString(s, i + 1, Append(acc, s[i]))

\* NUMBER_RE: (-?(?:0|[1-9]\d*))(\.\d+)?
ScanNumber(s, i) ==
  LET neg == s[i] = "-"
      j   == IF neg THEN i + 1 ELSE i
      ie  == IF j <= Len(s) /\ s[j] = "0" THEN j ELSE DigitsEnd(s, j)
      fe  == IF ie + 2 <= Len(s) /\ s[ie + 1] = "." /\ s[ie + 2] \in DigitSet
             THEN DigitsEnd(s, ie + 2) ELSE ie
      mag == DigitsValue(SubSeq(s, j, ie))
      n   == IF neg THEN 0 - mag ELSE mag
  IN  IF ie < j THEN ParseError
      ELSE IF fe > ie THEN Parsed(JFloat(n, SubSeq(s, ie + 2, fe)), fe + 1)
      ELSE Parsed(JInt(n), ie + 1)

RECURSIVE ScanValue(_, _), ScanMembers(_, _, _), ScanElements(_, _, _)
\* scan_once: the value that starts at position i
ScanValue(s, i) ==
  IF i > Len(s) THEN ParseError
  ELSE IF s[i] = DQ
       THEN LET r == ScanString(s, i + 1, << >>)
            IN  IF r.ok THEN Parsed(JStr(r.val), r.next) ELSE ParseError
  ELSE IF s[i] = "{"
       THEN LET j == SkipWs(s, i + 1)
            IN  IF j <= Len(s) /\ s[j] = "}" THEN Parsed(JDict(<< >>, << >>), j + 1)
                ELSE ScanMembers(s, j, JDict(<< >>, << >>))
  ELSE IF s[i] = "["
       THEN LET j == SkipWs(s, i + 1)
            IN  IF j <= Len(s) /\ s[j] = "]" THEN Parsed(JList(<< >>), j + 1)
                ELSE ScanElements(s, j, << >>)
  ELSE IF MatchAt(s, i, <<"n", "u", "l", "l">>) THEN Parsed(JNull, i + 4)
  ELSE IF MatchAt(s, i, <<"t", "r", "u", "e">>) THEN Parsed(JBool(TRUE), i + 4)
  ELSE IF MatchAt(s, i, <<"f", "a", "l", "s", "e">>) THEN Parsed(JBool(FALSE), i + 5)
  ELSE ScanNumber(s, i)

\* JSONObject: a member "key" : value at position i, then ',' or '}'
ScanMembers(s, i, d) ==
  IF i > Len(s) \/ s[i] # DQ THEN ParseError
  ELSE LET k == ScanString(s, i + 1, << >>)
       IN  IF ~k.ok THEN ParseError
           ELSE LET c == SkipWs(s, k.next)
                IN  IF c > Len(s) \/ s[c] # ":" THEN ParseError
                    ELSE LET v == ScanValue(s, SkipWs(s, c + 1))
                         IN  IF ~v.ok THEN ParseError
                             ELSE LET e  == SkipWs(s, v.next)
                                      d2 == DictPut(d, k.val, v.val)
                                  IN  IF e > Len(s) THEN ParseError
                                      ELSE IF s[e] = "}" THEN Parsed(d2, e + 1)
                                      ELSE IF s[e] = ","
                                           THEN ScanMembers(s, SkipWs(s, e + 1), d2)
                                      ELSE ParseError

\* JSONArray: an element at position i, then ',' or ']'
ScanElements(s, i, items) ==
  LET v == ScanValue(s, i)
  IN  IF ~v.ok THEN ParseError
      ELSE LET e == SkipWs(s, v.next)
           IN  IF e > Len(s) THEN ParseError
               ELSE IF s[e] = "]" THEN Parsed(JList(Append(items, v.val)), e + 1)
               ELSE IF s[e] = ","
                    THEN ScanElements(s, SkipWs(s, e + 1), Append(items, v.val))
               ELSE ParseError

\* JSONDecoder.decode: one value between optional whitespace, nothing else.
\* ok = FALSE stands for json.JSONDecodeError.
json_loads(s) ==
  LET v == ScanValue(s, SkipWs(s, 1))
  IN  IF ~v.ok THEN ParseError
      ELSE IF SkipWs(s, v.next) # Len(s) + 1 THEN ParseError
      ELSE [ok |-> TRUE, val |-> v.val]

\* int(x) of Python for a str: optional whitespace around an optional sign
\* and digits. ok = FALSE stands for ValueError.
StrToInt(s) ==
  LET b    == strip(s)
      sgn  == b # << >> /\ b[1] \in {"-", "+"}
      body == IF sgn THEN Tail(b) ELSE b
  IN  IF body = << >> \/ \E k \in 1..Len(body) : body[k] \notin DigitSet
      THEN [ok |-> FALSE]
      ELSE [ok |-> TRUE,
            n  |-> IF sgn /\ b[1] = "-" THEN 0 - DigitsValue(body)
                   ELSE DigitsValue(body)]

(***************************************************************************)
(* The words of the replies. The prompts (main.py 127-150 and 312-328) ask *)
(* for a JSON array of {key, max_score, levels} objects and for one        *)
(* {score, snippet, suggestion} object.                                    *)
(***************************************************************************)
W_key == <<"k", "e", "y">>

W_max_score == <<"m", "a", "x", "_", "s", "c", "o", "r", "e">>

W_levels == <<"l", "e", "v", "e", "l", "s">>

W_score == <<"s", "c", "o", "r", "e">>

W_snippet == <<"s", "n", "i", "p", "p", "e", "t">>

W_suggestion == <<"s", "u", "g", "g", "e", "s", "t", "i", "o", "n">>

W_null == <<"n", "u", "l", "l">>

W_true == <<"t", "r", "u", "e">>

W_Thesis == <<"T", "h", "e", "s", "i", "s">>

W_Evidence == <<"E", "v", "i", "d", "e", "n", "c", "e">>

W_Clear == <<"C", "l", "e", "a", "r", " ", "t", "h", "e", "s", "i", "s">>

W_Missing == <<"M", "i", "s", "s", "i", "n", "g">>

W_Excellent == <<"E", "x", "c", "e", "l", "l", "e", "n", "t">>

W_Poor == <<"P", "o", "o", "r">>

W_Some == <<"S", "o", "m", "e", " ", "s", "u", "p", "p", "o", "r", "t">>

W_ThesisClear ==
  <<"T", "h", "e", "s", "i", "s", ":", " ", "c", "l", "e", "a", "r">>

W_GoodPoint == <<"G", "o", "o", "d", " ", "p", "o", "i", "n", "t">>

W_HeSaid == <<"H", "e", " ", "s", "a", "i", "d", ":", " ", "y", "e", "s">>

W_Its == <<"i", "t", SQ, "s">>

W_high == <<"h", "i", "g", "h">>

W_none == <<"n", "o", "n", "e">>

W_criteria == <<"c", "r", "i", "t", "e", "r", "i", "a">>

W_Sorry ==
  <<"S", "o", "r", "r", "y", ",", " ", "I", " ", "c", "a", "n", "n", "o",
    "t", " ", "d", "o", " ", "t", "h", "i", "s", ".">>

W_HereIs ==
  <<"H", "e", "r", "e", " ", "i", "s", " ", "t", "h", "e", " ", "J", "S",
    "O", "N", ":", " ">>

W_LevelPre == <<"L", "e", "v", "e", "l", " ">>

W_LevelPost ==
  <<" ", "d", "e", "s", "c", "r", "i", "p", "t", "i", "o", "n", " ", "(",
    "a", "u", "t", "o", "-", "g", "e", "n", "e", "r", "a", "t", "e", "d",
    ")">>

(***************************************************************************)
(* parse_rubric, from the oracle's reply to the schema (main.py 174-257)   *)
(***************************************************************************)
\* str(n) of an int, as the f-strings format it
RECURSIVE NatToChars(_)
NatToChars(n) ==
  IF n < 10 THEN <<Digits[n + 1]>>
  ELSE NatToChars(n \div 10) \o <<Digits[(n % 10) + 1]>>

IntToChars(n) == IF n < 0 THEN <<"-">> \o NatToChars(0 - n) ELSE NatToChars(n)

\* isinstance(x, int): a JSON integer, or true/false (bool is a subclass of
\* int in Python, True == 1 and False == 0)
IsInt(v) == v.t \in {"int", "bool"}

IntValue(v) == IF v.t = "bool" THEN (IF v.b THEN 1 ELSE 0) ELSE v.n

\* try: first, except: second
OrElse(first, second) == IF first.ok THEN first ELSE second

\* main.py 212-224: json.loads of the text from the first '[' to the last
\* ']' when there are both, "AI returned invalid JSON" otherwise
ExtractArray(cleaned_response) ==
  LET start == find(cleaned_response, "[")
      end   == rfind(cleaned_response, "]")
  IN  IF start >= 1 /\ end >= start
      THEN json_loads(SubSeq(cleaned_response, start, end))
      ELSE ParseError

\* main.py 196-224: json.loads of the cleaned reply; on JSONDecodeError the
\* single-quote fix and json.loads again; on JSONDecodeError the array
\* extraction
RepairRubricJson(cleaned_response) ==
  OrElse(json_loads(cleaned_response),
         OrElse(json_loads(SingleQuoteFix(cleaned_response)),
                ExtractArray(cleaned_response)))

\* main.py 174-224: the reply's text to the parsed value
ParseRubricReply(raw_response) == RepairRubricJson(FixKeys(StripFences(raw_response)))

\* main.py 255: f"Level {level_num} description (auto-generated)"
Placeholder(level_num) == JStr(W_LevelPre \o IntToChars(level_num) \o W_LevelPost)

\* main.py 241-246: levels[int(k)] = v for every item of levels_raw; the
\* keys of a JSON object are str. A later key with the same int replaces an
\* earlier one.
LevelKeysOk(levels_raw) ==
  \A j \in 1..Len(levels_raw.keys) : StrToInt(levels_raw.keys[j]).ok

ConvertLevels(levels_raw) ==
  LET n    == Len(levels_raw.keys)
      num  == [j \in 1..n |-> StrToInt(levels_raw.keys[j]).n]
      last(k) == CHOOSE j \in 1..n : num[j] = k /\ \A i \in (j + 1)..n : num[i] # k
  IN  [k \in {num[j] : j \in 1..n} |-> levels_raw.vals[last(k)]]

\* FillLevels without lines 252-255: the levels as the oracle gave them
FillLevelsNot(levels, ms) == levels

\* main.py 252-255: every level of range(ms + 1) that is missing gets the
\* placeholder
FillLevels(levels, ms) ==
  [k \in (DOMAIN levels) \cup (0..ms) |->
     IF k \in DOMAIN levels THEN levels[k] ELSE Placeholder(k)]

\* main.py 248: not isinstance(ms, int) or ms < 1
InvalidMaxScore(ms) == ~IsInt(ms) \/ IntValue(ms) < 1

\* main.py 231-257, one item of the loop: detail is "" when the item passes,
\* and then item is what the loop leaves in the list (the fields
\* score_essay reads, levels replaced by the int-keyed dict)
ValidateItem(item) ==
  IF item.t # "dict"
  THEN [detail |-> "Item is not a dictionary"]
  ELSE IF ~(DictHas(item, W_key) /\ DictHas(item, W_max_score) /\ DictHas(item, W_levels))
  THEN [detail |-> "Item missing required fields"]
  ELSE LET ms         == DictGet(item, W_max_score)
           levels_raw == DictGet(item, W_levels)
       IN  IF levels_raw.t # "dict"
           THEN [detail |-> "Internal server error"]  \* .items() of a non-dict
           ELSE IF ~LevelKeysOk(levels_raw)
           THEN [detail |-> "Invalid level key"]
           ELSE IF InvalidMaxScore(ms)
           THEN [detail |-> "Invalid max_score"]
           ELSE [detail |-> "",
                 item   |-> [key       |-> DictGet(item, W_key),
                             max_score |-> IntValue(ms),
                             levels    |-> FillLevels(ConvertLevels(levels_raw),
                                                      IntValue(ms))]]

\* main.py 227-257: the list check and the loop over the items, which stops
\* at the first item that fails
ValidateRubric(parsed) ==
  IF parsed.t # "list"
  THEN [detail |-> "AI response is not a list"]
  ELSE LET checked == [i \in 1..Len(parsed.items) |-> ValidateItem(parsed.items[i])]
           bad     == {i \in 1..Len(parsed.items) : checked[i].detail # ""}
           stop    == CHOOSE i \in bad : \A j \in bad : i <= j
       IN  IF bad # {}
           THEN [detail |-> checked[stop].detail,
                 \* the items the loop had normalised before it raised
                 passed |-> [i \in 1..(stop - 1) |-> checked[i].item]]
           ELSE [detail |-> "",
                 rubric |-> [i \in 1..Len(parsed.items) |-> checked[i].item]]

\* main.py 196-257 after the parsing: "AI returned invalid JSON" when every
\* json.loads raised, the validation otherwise
ValidateParsed(parsed) ==
  IF ~parsed.ok THEN [detail |-> "AI returned invalid JSON"]
  ELSE ValidateRubric(parsed.val)

\* main.py 174-257: from the reply's text to the rubric to store, or to the
\* detail of the HTTPException(500)
BuildRubric(raw_response) == ValidateParsed(ParseRubricReply(raw_response))

(***************************************************************************)
(* score_essay, one criterion: from the oracle's reply to the LLMMatch     *)
(* (main.py 335-398)                                                       *)
(***************************************************************************)
Raised == [ok |-> FALSE]

\* int(x), main.py 359 and 374: an int or a bool as it is, a float
\* truncated, a str parsed; TypeError for None, a list or a dict
IntOf(v) ==
  IF IsInt(v) THEN [ok |-> TRUE, n |-> IntValue(v)]
  ELSE IF v.t = "float" THEN [ok |-> TRUE, n |-> v.n]
  ELSE IF v.t = "str" THEN StrToInt(v.s)
  ELSE Raised

\* parsed.get(name): None when the key is missing
DictGetOrNone(d, k) == IF DictHas(d, k) THEN DictGet(d, k) ELSE JNull

\* Clamp with max(0, score_val) alone, the min against max_score lost
ClampBelowOnly(score_val, max_score) == IF score_val < 0 THEN 0 ELSE score_val

\* main.py 364-366 and 378-380
Clamp(score_val, max_score) ==
  IF score_val < 0 \/ score_val > max_score
  THEN LET m == IF score_val < max_score THEN score_val ELSE max_score
       IN  IF m > 0 THEN m ELSE 0
  ELSE score_val

\* main.py 359-366 and 374-380: int(parsed["score"]), the two .get, the
\* clamp, on what json.loads returned. Raised when json.loads or any of
\* them raises.
ScoreFields(parsed, max_score) ==
  IF ~parsed.ok THEN Raised
  ELSE IF parsed.val.t # "dict" THEN Raised
  ELSE IF ~DictHas(parsed.val, W_score) THEN Raised
  ELSE IF ~IntOf(DictGet(parsed.val, W_score)).ok THEN Raised
  ELSE [ok         |-> TRUE,
        score_val  |-> Clamp(IntOf(DictGet(parsed.val, W_score)).n, max_score),
        snippet    |-> DictGetOrNone(parsed.val, W_snippet),
        suggestion |-> DictGetOrNone(parsed.val, W_suggestion)]

\* main.py 358-366 and 373-380, the body of either try
ReadScore(text, max_score) == ScoreFields(json_loads(text), max_score)

\* main.py 357-388: the first try on the cleaned text, the second on the
\* single-quote fix of it
ReadCleaned(cleaned_raw, max_score) ==
  OrElse(ReadScore(cleaned_raw, max_score),
         ReadScore(SingleQuoteFix(cleaned_raw), max_score))

\* main.py 335-388: the reply's text to score_val, snippet_val and
\* suggestion_val. Raised stands for the HTTPException(500) "Scoring LLM
\* JSON parse error".
ReadReply(raw, max_score) == ReadCleaned(FixKeys(StripFences(raw)), max_score)

\* pydantic's check of a str and of an Optional[str] field of LLMMatch
\* (main.py 73-78)
OptionalStr(v) == v.t \in {"str", "null"}

\* main.py 390-405: the LLMMatch appended to results; a field of the wrong
\* type is a ValidationError, which line 402 turns into the
\* HTTPException(500) "Error processing criterion"
MakeMatch(item, got) ==
  IF item.key.t # "str" \/ ~OptionalStr(got.snippet) \/ ~OptionalStr(got.suggestion)
  THEN [detail |-> "Error processing criterion"]
  ELSE [detail |-> "",
        match  |-> [criterion  |-> item.key.s,
                    score      |-> got.score_val,
                    max_score  |-> item.max_score,
                    snippet    |-> got.snippet,
                    suggestion |-> got.suggestion]]

(***************************************************************************)
(* The completion oracle. generate_content is outside the repository: a    *)
(* call raises, returns no candidates, or returns a text. The texts of the *)
(* model are what the prompts ask for, written the ways the code says the  *)
(* oracle writes (main.py 174, 184-192, 199-204, 211: markdown fences,     *)
(* unquoted keys, single quotes, prose around the array), and replies that *)
(* are wrong in each way the validation names.                             *)
(***************************************************************************)
\* how far below 0 and above 0 the scores of the replies go
ScoreSpan == 3

\* the rubric texts submitted are 1..NumTexts
NumTexts == 3

\* the digests are 1..NumIds
NumIds == 2

Styles == {"strict", "fenced", "bare", "single"}

\* the quote around an object key and around a string, per style
KeyQuote(style) ==
  IF style = "bare" THEN << >> ELSE IF style = "single" THEN <<SQ>> ELSE <<DQ>>

StrQuote(style) == IF style = "single" THEN <<SQ>> ELSE <<DQ>>

Key(style, w) == KeyQuote(style) \o w \o KeyQuote(style) \o <<":", " ">>

Str(style, w) == StrQuote(style) \o w \o StrQuote(style)

Fenced(style, body) ==
  IF style \in {"fenced", "bare"}
  THEN FenceJson \o <<"\n">> \o body \o <<"\n">> \o Fence
  ELSE body

RECURSIVE Join(_)
Join(parts) ==
  IF parts = << >> THEN << >>
  ELSE IF Len(parts) = 1 THEN parts[1]
  ELSE parts[1] \o <<",", " ">> \o Join(Tail(parts))

Level(k, d) == [k |-> k, d |-> d]

\* the criteria an oracle reply may list: what it writes for key, for
\* max_score (quoted when ms_str) and for levels, and whether the item is
\* an object with the three fields ("full"), one without levels
\* ("no_levels"), one whose levels is a string ("levels_str") or a bare
\* number ("number")
Criterion(key, ms, ms_str, levels, form) ==
  [key |-> key, ms |-> ms, ms_str |-> ms_str, levels |-> levels, form |-> form]

CriterionOf(name) ==
  CASE name = "A" ->  \* the example of the prompt, main.py 137-144
         Criterion(W_Thesis, <<"1">>, FALSE,
                   <<Level(<<"1">>, W_Clear), Level(<<"0">>, W_Missing)>>, "full")
    [] name = "B" ->  \* levels 1 and 2 left out
         Criterion(W_Evidence, <<"3">>, FALSE,
                   <<Level(<<"3">>, W_Excellent), Level(<<"0">>, W_Poor)>>, "full")
    [] name = "D" ->  \* the key of A once more
         Criterion(W_Thesis, <<"4">>, FALSE,
                   <<Level(<<"4">>, W_Excellent), Level(<<"2">>, W_Some),
                     Level(<<"0">>, W_Poor)>>, "full")
    [] name = "C" ->  \* a description with a word and a colon
         Criterion(W_Thesis, <<"1">>, FALSE,
                   <<Level(<<"1">>, W_ThesisClear), Level(<<"0">>, W_Missing)>>, "full")
    [] name = "T" ->  \* max_score true
         Criterion(W_Evidence, W_true, FALSE,
                   <<Level(<<"1">>, W_Excellent), Level(<<"0">>, W_Poor)>>, "full")
    [] name = "Zero" ->
         Criterion(W_Evidence, <<"0">>, FALSE, <<Level(<<"0">>, W_Poor)>>, "full")
    [] name = "StrMax" ->
         Criterion(W_Evidence, <<"2">>, TRUE, <<Level(<<"0">>, W_Poor)>>, "full")
    [] name = "FloatMax" ->
         Criterion(W_Evidence, <<"2", ".", "5">>, FALSE,
                   <<Level(<<"0">>, W_Poor)>>, "full")
    [] name = "WordLevel" ->
         Criterion(W_Evidence, <<"2">>, FALSE,
                   <<Level(W_high, W_Excellent), Level(<<"0">>, W_Poor)>>, "full")
    [] name = "NoLevels" ->
         Criterion(W_Evidence, <<"2">>, FALSE, << >>, "no_levels")
    [] name = "LevelsStr" ->
         Criterion(W_Evidence, <<"2">>, FALSE, << >>, "levels_str")
    [] name = "Number" ->
         Criterion(W_Evidence, <<"5">>, FALSE, << >>, "number")

CriterionText(style, c) ==
  IF c.form = "number" THEN c.ms
  ELSE <<"{">> \o Key(style, W_key) \o Str(style, c.key) \o <<",", " ">>
       \o Key(style, W_max_score)
       \o (IF c.ms_str THEN Str(style, c.ms) ELSE c.ms)
       \o (IF c.form = "no_levels" THEN << >>
           ELSE <<",", " ">> \o Key(style, W_levels)
                \o (IF c.form = "levels_str" THEN Str(style, W_none)
                    ELSE <<"{">>
                         \o Join([j \in 1..Len(c.levels) |->
                                    Key(style, c.levels[j].k) \o Str(style, c.levels[j].d)])
                         \o <<"}">>))
       \o <<"}">>

ArrayText(style, list) ==
  <<"[">> \o Join([j \in 1..Len(list) |-> CriterionText(style, CriterionOf(list[j]))])
    \o <<"]">>

\* the arrays the replies hold
RubricLists ==
  { << >>, <<"A">>, <<"B">>, <<"D">>, <<"T">>, <<"A", "B">>, <<"B", "A">>,
    <<"A", "D">>, <<"C">>, <<"B", "C">>, <<"A", "Zero">>, <<"A", "StrMax">>,
    <<"FloatMax">>, <<"A", "WordLevel">>, <<"A", "NoLevels">>,
    <<"A", "LevelsStr">>, <<"A", "Number">>, <<"Number", "A">> }

RubricReply(kind, style, list) == [kind |-> kind, style |-> style, list |-> list]

\* what generate_content does on the call of parse_rubric (main.py 159-171)
RubricReplies ==
  { RubricReply("raise", "strict", << >>),          \* generate_content raises
    RubricReply("no_candidates", "strict", << >>),  \* resp.candidates is empty
    RubricReply("prose", "strict", << >>),          \* no JSON at all
    RubricReply("object", "strict", <<"A">>),       \* {"criteria": [...]}
    RubricReply("wrapped", "strict", <<"A", "B">>) }  \* prose, then the array
  \cup { RubricReply("array", st, l) : st \in Styles, l \in RubricLists }

RubricText(r) ==
  CASE r.kind = "array"   -> Fenced(r.style, ArrayText(r.style, r.list))
    [] r.kind = "wrapped" -> W_HereIs \o ArrayText(r.style, r.list)
    [] r.kind = "object"  ->
         <<"{">> \o Key(r.style, W_criteria) \o ArrayText(r.style, r.list) \o <<"}">>
    [] OTHER -> W_Sorry

Snippets == {"null", "plain", "colon", "apostrophe"}

SnippetText(style, snip) ==
  CASE snip = "null"       -> W_null
    [] snip = "plain"      -> Str(style, W_GoodPoint)
    [] snip = "colon"      -> Str(style, W_HeSaid)
    [] snip = "apostrophe" -> Str(style, W_Its)

ScoreReply(kind, style, score, snip) ==
  [kind |-> kind, style |-> style, score |-> score, snip |-> snip]

\* the scores the oracle names: around 0, and one far above every max_score
Scores == ((0 - ScoreSpan)..ScoreSpan) \cup {999}

\* what generate_content does on a call of score_essay (main.py 330-335)
ScoreReplies ==
  { ScoreReply(k, "strict", 0, "null") :
      k \in {"raise", "no_candidates", "prose", "no_score", "null_score",
             "str_score", "float_score", "list", "number_snippet"} }
  \cup { ScoreReply("json", "strict", n, "null") : n \in Scores }
  \cup { ScoreReply("json", st, n, "null") :
           st \in Styles \ {"strict"}, n \in {0 - ScoreSpan, ScoreSpan} }
  \cup { ScoreReply("json", "strict", 1, sn) : sn \in Snippets \ {"null"} }
  \cup { ScoreReply("json", "single", 1, "apostrophe") }

ScoreObject(style, score_text, snip) ==
  <<"{">> \o Key(style, W_score) \o score_text \o <<",", " ">>
    \o Key(style, W_snippet) \o snip \o <<",", " ">>
    \o Key(style, W_suggestion) \o W_null \o <<"}">>

ScoreText(r) ==
  CASE r.kind = "json" ->
         Fenced(r.style, ScoreObject(r.style, IntToChars(r.score),
                                     SnippetText(r.style, r.snip)))
    [] r.kind = "no_score" ->
         <<"{">> \o Key("strict", W_snippet) \o W_null \o <<"}">>
    [] r.kind = "null_score" -> ScoreObject("strict", W_null, W_null)
    [] r.kind = "str_score" -> ScoreObject("strict", Str("strict", <<"2">>), W_null)
    [] r.kind = "float_score" -> ScoreObject("strict", <<"2", ".", "7">>, W_null)
    [] r.kind = "number_snippet" -> ScoreObject("strict", <<"1">>, <<"5">>)
    [] r.kind = "list" -> <<"[", "3", "]">>
    [] OTHER -> W_Sorry

(***************************************************************************)
(* The state                                                               *)
(***************************************************************************)
VARIABLES
  parsed_rubrics,  \* main.py 57: rubric_id -> the rubric stored for it
  genai_client,    \* main.py 50-55: FALSE when the client is None
  request,         \* the request being answered, NoRequest between requests
  response,        \* what its handler returned or raised
  oracle_calls,    \* the generate_content calls of the handler, with replies
  extract_calls,   \* its calls of extract_text_or_ocr_from_pdf
  issued           \* rubric text -> the rubric_id a 200 response gave for it

vars ==
  <<parsed_rubrics, genai_client, request, response, oracle_calls,
    extract_calls, issued>>

RubricTexts == 1..NumTexts

RubricIds == 1..NumIds

\* main.py 122: hashlib.sha256(raw.encode("utf-8")).hexdigest()[:12], a
\* function of the text alone into fewer digests than there are texts
RubricId(raw) == ((raw - 1) % NumIds) + 1

NoRequest == [op |-> "none", rubric_text |-> 0, rubric_id |-> 0]

NoResponse == [status |-> 0, detail |-> "", rubric_id |-> 0, results |-> << >>]

Error(status, detail) ==
  [status |-> status, detail |-> detail, rubric_id |-> 0, results |-> << >>]

Call(criterion, reply) == [criterion |-> criterion, reply |-> reply]

\* Put with a fresh dict in place of the old one
PutAlone(cache, rubric_id, parsed) == [k \in {rubric_id} |-> parsed]

\* parsed_rubrics[rubric_id] = parsed
Put(cache, rubric_id, parsed) ==
  [k \in (DOMAIN cache) \cup {rubric_id} |->
     IF k = rubric_id THEN parsed ELSE cache[k]]

\* BuildRubric and ReadReply of every text the oracle can reply, computed
\* once
TextRubricReplies == {r \in RubricReplies : r.kind \notin {"raise", "no_candidates"}}

RubricBuilt == [r \in TextRubricReplies |-> BuildRubric(RubricText(r))]

TextScoreReplies == {r \in ScoreReplies : r.kind \notin {"raise", "no_candidates"}}

MaxScoresBuilt ==
  UNION { {RubricBuilt[r].rubric[i].max_score : i \in 1..Len(RubricBuilt[r].rubric)} :
            r \in {q \in TextRubricReplies : RubricBuilt[q].detail = ""} }

ScoreRead ==
  [ms \in MaxScoresBuilt, r \in TextScoreReplies |-> ReadReply(ScoreText(r), ms)]

(***************************************************************************)
(* parse_rubric (main.py 116-268)                                          *)
(***************************************************************************)
\* parse_rubric without lines 123-125
CacheHitNever(cache, rubric_id) == FALSE

\* main.py 123: rubric_id in parsed_rubrics
CacheHit(cache, rubric_id) == rubric_id \in DOMAIN cache

\* StoreRubric with the store moved into the loop: the items that passed
\* before the loop raised are stored
StoreRubricEarly(cache, rubric_id, built) ==
  IF built.detail = "" THEN Put(cache, rubric_id, built.rubric)
  ELSE IF "passed" \in DOMAIN built THEN Put(cache, rubric_id, built.passed)
  ELSE cache

\* main.py 226-259: line 259 is reached only when the validation raised
\* nothing
StoreRubric(cache, rubric_id, built) ==
  IF built.detail = "" THEN Put(cache, rubric_id, built.rubric) ELSE cache

Ok(rubric_id, results) ==
  [status |-> 200, detail |-> "", rubric_id |-> rubric_id, results |-> results]

\* AfterReply with the oracle asked once more when the reply did not pass
AfterReplyRetry(cache, rubric_id, reply, built) ==
  [cache    |-> StoreRubric(cache, rubric_id, built),
   calls    |-> IF built.detail = "" THEN <<Call(0, reply)>>
                ELSE <<Call(0, reply), Call(0, reply)>>,
   response |-> IF built.detail = "" THEN Ok(rubric_id, << >>)
                ELSE Error(500, built.detail)]

\* main.py 174-261: after a reply with a text, built being what
\* BuildRubric made of it
AfterReply(cache, rubric_id, reply, built) ==
  [cache    |-> StoreRubric(cache, rubric_id, built),
   calls    |-> <<Call(0, reply)>>,
   response |-> IF built.detail = "" THEN Ok(rubric_id, << >>)
                ELSE Error(500, built.detail)]

\* main.py 155-171: the client check, the call, the reply
AskOracle(cache, client, rubric_id, reply) ==
  IF ~client
  THEN [cache |-> cache, calls |-> << >>,
        response |-> Error(500, "Generative AI client not initialized")]
  ELSE IF reply.kind = "raise"
  THEN [cache |-> cache, calls |-> <<Call(0, reply)>>,
        response |-> Error(500, "AI service error")]
  ELSE IF reply.kind = "no_candidates"
  THEN [cache |-> cache, calls |-> <<Call(0, reply)>>,
        response |-> Error(500, "No response from AI service")]
  ELSE AfterReply(cache, rubric_id, reply, RubricBuilt[reply])

\* the handler: the cache it leaves, its response and its oracle calls
ParseRubric(cache, client, raw, reply) ==
  IF CacheHit(cache, RubricId(raw))
  THEN [cache |-> cache, calls |-> << >>, response |-> Ok(RubricId(raw), << >>)]
  ELSE AskOracle(cache, client, RubricId(raw), reply)

(***************************************************************************)
(* score_essay (main.py 285-408) and score_essay_pdf (main.py 410-430)     *)
(***************************************************************************)
\* Precheck with the check of line 293 before the check of line 289
PrecheckClientFirst(cache, client, rubric_id) ==
  IF ~client THEN Error(500, "Generative AI client not initialized")
  ELSE IF rubric_id \notin DOMAIN cache THEN Error(404, "Unknown rubric_id")
  ELSE Error(0, "")

\* main.py 289-294: the two checks before the loop; status 0 when both pass
Precheck(cache, client, rubric_id) ==
  IF rubric_id \notin DOMAIN cache THEN Error(404, "Unknown rubric_id")
  ELSE IF ~client THEN Error(500, "Generative AI client not initialized")
  ELSE Error(0, "")

\* main.py 357-405, got being what ReadReply made of the reply's text
MatchOrError(item, got) ==
  IF ~got.ok THEN [detail |-> "Scoring LLM JSON parse error"]
  ELSE MakeMatch(item, got)

\* main.py 329-405, one pass of the loop: a call that raises, or a reply
\* with no candidates (IndexError), ends at line 402
ScoreItem(item, reply) ==
  IF reply.kind \in {"raise", "no_candidates"}
  THEN [detail |-> "Error processing criterion"]
  ELSE MatchOrError(item, ScoreRead[item.max_score, reply])

\* LoopResult with the raise put off to the end of the loop: every
\* criterion is sent to the oracle before the first failure is reported
LoopCallsAll(replies, out) ==
  LET n    == Len(out)
      bad  == {i \in 1..n : out[i].detail # ""}
      stop == IF bad = {} THEN n ELSE CHOOSE i \in bad : \A j \in bad : i <= j
  IN  [calls    |-> [i \in 1..n |-> Call(i, replies[i])],
       response |-> IF bad = {} THEN Ok(0, [i \in 1..n |-> out[i].match])
                    ELSE Error(500, out[stop].detail)]

\* LoopResult with "continue" in place of the raise of lines 385 and 405: a
\* criterion that fails is left out of results
LoopSkipFailed(replies, out) ==
  LET Good(o) == o.detail = ""
      kept    == SelectSeq(out, Good)
  IN  [calls    |-> [i \in 1..Len(out) |-> Call(i, replies[i])],
       response |-> Ok(0, [i \in 1..Len(kept) |-> kept[i].match])]

\* main.py 302-408, out[i] being what pass i of the loop comes to: the
\* passes run in order, the first one that fails raises and ends the
\* request, and results is returned when none does
LoopResult(replies, out) ==
  LET n    == Len(out)
      bad  == {i \in 1..n : out[i].detail # ""}
      stop == IF bad = {} THEN n ELSE CHOOSE i \in bad : \A j \in bad : i <= j
  IN  [calls    |-> [i \in 1..stop |-> Call(i, replies[i])],
       response |-> IF bad = {} THEN Ok(0, [i \in 1..n |-> out[i].match])
                    ELSE Error(500, out[stop].detail)]

\* main.py 298-408: the loop over the rubric, one oracle call per item
ScoreLoop(rubric, replies) ==
  LoopResult(replies, [i \in 1..Len(rubric) |-> ScoreItem(rubric[i], replies[i])])

ScoreEssay(cache, client, rubric_id, replies) ==
  IF Precheck(cache, client, rubric_id).status # 0
  THEN [calls |-> << >>, response |-> Precheck(cache, client, rubric_id)]
  ELSE ScoreLoop(cache[rubric_id], replies)

WithExtract(r) == [calls |-> r.calls, extracts |-> 1, response |-> r.response]

\* main.py 415-430: the check of line 417, the text extraction (pdf_ok is
\* whether it returns), then score_essay
ScoreEssayPdf(cache, client, rubric_id, pdf_ok, replies) ==
  IF rubric_id \notin DOMAIN cache
  THEN [calls |-> << >>, extracts |-> 0, response |-> Error(404, "Unknown rubric_id")]
  ELSE IF ~pdf_ok
  THEN [calls |-> << >>, extracts |-> 1,
        response |-> Error(500, "PDF essay scoring error")]
  ELSE WithExtract(ScoreEssay(cache, client, rubric_id, replies))

\* the replies the oracle gives to the calls of one scoring request: one
\* for each item of the rubric
ReplySeqs(cache, rubric_id) ==
  IF rubric_id \in DOMAIN cache
  THEN [1..Len(cache[rubric_id]) -> ScoreReplies]
  ELSE {<< >>}

(***************************************************************************)
(* The requests                                                            *)
(***************************************************************************)
Init ==
  /\ parsed_rubrics = << >>
  /\ genai_client \in BOOLEAN
  /\ request = NoRequest
  /\ response = NoResponse
  /\ oracle_calls = << >>
  /\ extract_calls = 0
  /\ issued = << >>

parse_rubric ==
  /\ request = NoRequest
  /\ \E raw \in RubricTexts, reply \in RubricReplies :
       \E r \in {ParseRubric(parsed_rubrics, genai_client, raw, reply)} :
           /\ request' = [op |-> "parse_rubric", rubric_text |-> raw, rubric_id |-> 0]
           /\ parsed_rubrics' = r.cache
           /\ response' = r.response
           /\ oracle_calls' = r.calls
  /\ UNCHANGED <<genai_client, extract_calls, issued>>

score_essay ==
  /\ request = NoRequest
  /\ \E rubric_id \in RubricIds :
       \E replies \in ReplySeqs(parsed_rubrics, rubric_id) :
         \E r \in {ScoreEssay(parsed_rubrics, genai_client, rubric_id, replies)} :
             /\ request' = [op |-> "score_essay", rubric_text |-> 0,
                            rubric_id |-> rubric_id]
             /\ response' = r.response
             /\ oracle_calls' = r.calls
  /\ UNCHANGED <<parsed_rubrics, genai_client, extract_calls, issued>>

score_essay_pdf ==
  /\ request = NoRequest
  /\ \E rubric_id \in RubricIds, pdf_ok \in BOOLEAN :
       \E replies \in IF pdf_ok THEN ReplySeqs(parsed_rubrics, rubric_id) ELSE {<< >>} :
         \E r \in {ScoreEssayPdf(parsed_rubrics, genai_client, rubric_id, pdf_ok,
                                 replies)} :
             /\ request' = [op |-> "score_essay_pdf", rubric_text |-> 0,
                            rubric_id |-> rubric_id]
             /\ response' = r.response
             /\ oracle_calls' = r.calls
             /\ extract_calls' = r.extracts
  /\ UNCHANGED <<parsed_rubrics, genai_client, issued>>

\* the response leaves the server: what belonged to the request is gone, and
\* the client of a parse_rubric that returned 200 holds the rubric_id
Respond ==
  /\ request # NoRequest
  /\ issued' = IF request.op = "parse_rubric" /\ response.status = 200
               THEN Put(issued, request.rubric_text, response.rubric_id)
               ELSE issued
  /\ request' = NoRequest
  /\ response' = NoResponse
  /\ oracle_calls' = << >>
  /\ extract_calls' = 0
  /\ UNCHANGED <<parsed_rubrics, genai_client>>

Next == parse_rubric \/ score_essay \/ score_essay_pdf \/ Respond

Spec == Init /\ [][Next]_vars

(***************************************************************************)
(* detect_sections (main.py 432-456) and structure_pdf (main.py 458-490).  *)
(* Neither reads or writes parsed_rubrics or genai_client.                 *)
(***************************************************************************)
LowerCase ==
  <<"a","b","c","d","e","f","g","h","i","j","k","l","m","n","o","p","q","r","s",
    "t","u","v","w","x","y","z">>

UpperCase ==
  <<"A","B","C","D","E","F","G","H","I","J","K","L","M","N","O","P","Q","R","S",
    "T","U","V","W","X","Y","Z">>

\* str.lower and str.upper of one character
lower(c) ==
  IF \E k \in 1..Len(UpperCase) : UpperCase[k] = c
  THEN LowerCase[CHOOSE k \in 1..Len(UpperCase) : UpperCase[k] = c] ELSE c

upper(c) ==
  IF \E k \in 1..Len(LowerCase) : LowerCase[k] = c
  THEN UpperCase[CHOOSE k \in 1..Len(LowerCase) : LowerCase[k] = c] ELSE c

\* str.title() of one word of letters
title(w) == [k \in 1..Len(w) |-> IF k = 1 THEN upper(w[k]) ELSE lower(w[k])]

\* the alternatives of hdr, main.py 439
HeaderWords ==
  << <<"I", "n", "t", "r", "o", "d", "u", "c", "t", "i", "o", "n">>,
     <<"C", "o", "n", "c", "l", "u", "s", "i", "o", "n">>,
     <<"D", "i", "s", "c", "u", "s", "s", "i", "o", "n">> >>

W_Body == <<"B", "o", "d", "y">>

\* hdr.match(l), main.py 439 and 448: the length of group(1), 0 for no
\* match. The line starts with one of the words in any case (re.I), and \b
\* holds after it: the line ends there or goes on with no \w character.
HdrMatch(l) ==
  LET hit(k) == /\ Len(l) >= Len(HeaderWords[k])
                /\ \A j \in 1..Len(HeaderWords[k]) :
                     lower(l[j]) = lower(HeaderWords[k][j])
                /\ (Len(l) = Len(HeaderWords[k])
                      \/ l[Len(HeaderWords[k]) + 1] \notin WordChars)
  IN  IF \E k \in 1..Len(HeaderWords) : hit(k)
      THEN Len(HeaderWords[CHOOSE k \in 1..Len(HeaderWords) :
                             hit(k) /\ \A j \in 1..(k - 1) : ~hit(j)])
      ELSE 0

\* text.split("\n"), main.py 436
RECURSIVE split(_)
split(s) ==
  IF find(s, "\n") = 0 THEN <<s>>
  ELSE <<SubSeq(s, 1, find(s, "\n") - 1)>> \o split(DropFirst(s, find(s, "\n")))

\* "\n".join(buffer)
RECURSIVE join(_)
join(buffer) ==
  IF buffer = << >> THEN << >>
  ELSE IF Len(buffer) = 1 THEN buffer[1]
  ELSE buffer[1] \o <<"\n">> \o join(Tail(buffer))

Section(name, text) == [name |-> name, text |-> text]

\* commit(), main.py 441-445: the sections after it (the buffer after it is
\* empty)
Commit(sections, buffer, current) ==
  IF buffer # << >>
  THEN Append(sections, Section(current, strip(join(buffer))))
  ELSE sections

\* main.py 447-453: the loop over the lines and the last commit
RECURSIVE ScanLines(_, _, _, _)
ScanLines(lines, sections, buffer, current) ==
  IF lines = << >> THEN Commit(sections, buffer, current)
  ELSE IF HdrMatch(lines[1]) # 0
  THEN ScanLines(Tail(lines), Commit(sections, buffer, current), << >>,
                 title(SubSeq(lines[1], 1, HdrMatch(lines[1]))))
  ELSE ScanLines(Tail(lines), sections, Append(buffer, lines[1]), current)

\* main.py 436-456
DetectSections(text) == ScanLines(split(text), << >>, << >>, W_Body)

\* main.py 462-490: pdf_ok is whether extract_text_or_ocr_from_pdf returns
StructurePdf(pdf_ok, text) ==
  IF pdf_ok THEN Ok(0, DetectSections(text)) ELSE Error(500, "PDF structure error")

\* the texts sent to /structure and extracted from the PDFs sent to
\* /structure_pdf are up to MaxLines lines
MaxLines == 3

\* the lines of the texts: an empty and a blank line, two sentences, a
\* heading in title case and one in capitals, and a word that only starts
\* like a heading
SegLines ==
  { << >>, <<" ">>, <<"P", "1", ".">>, <<"P", "2", ".">>, HeaderWords[1],
    <<"C", "O", "N", "C", "L", "U", "S", "I", "O", "N">>,
    HeaderWords[3] \o <<"s">> }

SegTexts == {join(ls) : ls \in UNION {[1..n -> SegLines] : n \in 0..MaxLines}}

StructRequest(op, text) ==
  [op |-> op, rubric_text |-> 0, rubric_id |-> 0, text |-> text]

detect_sections ==
  /\ request = NoRequest
  /\ \E text \in SegTexts :
       /\ request' = StructRequest("detect_sections", text)
       /\ response' = Ok(0, DetectSections(text))
  /\ UNCHANGED <<parsed_rubrics, genai_client, oracle_calls, extract_calls, issued>>

structure_pdf ==
  /\ request = NoRequest
  /\ \E pdf_ok \in BOOLEAN, text \in SegTexts :
       /\ request' = StructRequest("structure_pdf", IF pdf_ok THEN text ELSE << >>)
       /\ response' = StructurePdf(pdf_ok, text)
       /\ extract_calls' = 1
  /\ UNCHANGED <<parsed_rubrics, genai_client, oracle_calls, issued>>

NextStructure == detect_sections \/ structure_pdf \/ Respond

\* the server with the two segmenter routes alone
StructureSpec == Init /\ [][NextStructure]_vars

(***************************************************************************)
(* The claims. A request is read in the state its handler leaves: request  *)
(* is the request, response what the client gets, oracle_calls the calls   *)
(* the handler made with the replies it got.                               *)
(***************************************************************************)
ScoreOps == {"score_essay", "score_essay_pdf"}

\* C1: a scoring request on a cached rubric of N criteria either fails and
\* returns no result at all, or returns exactly N results, the i-th with the
\* key and the max_score of the i-th criterion of the rubric, in its order
C1_AlignedOrFailed ==
  request.op \in ScoreOps =>
    \/ response.status # 200 /\ response.results = << >>
    \/ /\ response.status = 200
       /\ request.rubric_id \in DOMAIN parsed_rubrics
       /\ Len(response.results) = Len(parsed_rubrics[request.rubric_id])
       /\ \A i \in 1..Len(response.results) :
            /\ parsed_rubrics[request.rubric_id][i].key.t = "str"
            /\ response.results[i].criterion =
                 parsed_rubrics[request.rubric_id][i].key.s
            /\ response.results[i].max_score =
                 parsed_rubrics[request.rubric_id][i].max_score

\* score_essay returned two results for a rubric of two criteria
C1_TwoResults ==
  /\ request.op = "score_essay"
  /\ response.status = 200
  /\ Len(parsed_rubrics[request.rubric_id]) = 2
  /\ Len(response.results) = 2
  /\ response.results[1].criterion # response.results[2].criterion

\* C2: every result of a scoring request has 0 <= score <= max_score; the
\* score of a reply that names an integer is that integer when it is in
\* [0, max_score], 0 when it is below and max_score when it is above; and a
\* well-formed reply is never the one the request fails on, whatever its
\* score
C2_ScoreClamped ==
  request.op \in ScoreOps =>
    /\ \A i \in 1..Len(response.results) :
         /\ 0 <= response.results[i].score
         /\ response.results[i].score <= response.results[i].max_score
         /\ oracle_calls[i].reply.kind = "json" =>
              response.results[i].score =
                IF oracle_calls[i].reply.score < 0 THEN 0
                ELSE IF oracle_calls[i].reply.score > response.results[i].max_score
                     THEN response.results[i].max_score
                ELSE oracle_calls[i].reply.score
    /\ (response.status # 200 /\ oracle_calls # << >>) =>
         ~ /\ oracle_calls[Len(oracle_calls)].reply.kind = "json"
           /\ oracle_calls[Len(oracle_calls)].reply.snip = "null"

\* replies of -3 and of 999, the latter against max_score 4, came back as 0
\* and as 4
C2_BothEndsClamped ==
  /\ request.op = "score_essay"
  /\ response.status = 200
  /\ \E i, j \in 1..Len(response.results) :
       /\ oracle_calls[i].reply.kind = "json"
       /\ oracle_calls[i].reply.score = 0 - 3
       /\ response.results[i].score = 0
       /\ oracle_calls[j].reply.kind = "json"
       /\ oracle_calls[j].reply.score = 999
       /\ response.results[j].max_score = 4
       /\ response.results[j].score = 4

\* C3: a parse_rubric request for a text that an earlier parse_rubric
\* answered with 200 is answered with 200 and the same rubric_id, and makes
\* no oracle call, whatever ran in between and whatever the oracle would
\* have replied
C3_SameIdNoOracle ==
  (request.op = "parse_rubric" /\ request.rubric_text \in DOMAIN issued) =>
    /\ response.status = 200
    /\ response.rubric_id = issued[request.rubric_text]
    /\ oracle_calls = << >>

\* a text parsed before is parsed again, after a rubric was cached for
\* another rubric_id too
C3_ParsedAgain ==
  /\ request.op = "parse_rubric"
  /\ request.rubric_text \in DOMAIN issued
  /\ response.status = 200
  /\ oracle_calls = << >>
  /\ Cardinality(DOMAIN parsed_rubrics) = 2

\* C4: a parse_rubric request that fails leaves parsed_rubrics as it was
C4_FailureKeepsCache ==
  [][(request'.op = "parse_rubric" /\ response'.status # 200)
       => parsed_rubrics' = parsed_rubrics]_vars

\* parse_rubric failed on the second item of the reply after the first one
\* had passed, with another rubric in the cache
C4_FailedAfterFirstItem ==
  /\ request.op = "parse_rubric"
  /\ response.status = 500
  /\ response.detail = "Invalid max_score"
  /\ oracle_calls # << >>
  /\ oracle_calls[1].reply.list = <<"A", "Zero">>
  /\ parsed_rubrics # << >>
  /\ RubricId(request.rubric_text) \notin DOMAIN parsed_rubrics

\* C5: every criterion of every cached rubric has an integer max_score >= 1
\* and a level for every integer of 0..max_score; and in the rubric a
\* parse_rubric request has just stored, a level of 0..max_score that the
\* reply left out has the placeholder description
C5_LevelsTotal ==
  /\ \A id \in DOMAIN parsed_rubrics : \A i \in 1..Len(parsed_rubrics[id]) :
       /\ parsed_rubrics[id][i].max_score \in Int
       /\ parsed_rubrics[id][i].max_score >= 1
       /\ (0..parsed_rubrics[id][i].max_score) \subseteq
            DOMAIN parsed_rubrics[id][i].levels
  /\ (request.op = "parse_rubric" /\ response.status = 200 /\ oracle_calls # << >>) =>
       LET list   == oracle_calls[1].reply.list
           rubric == parsed_rubrics[response.rubric_id]
           given(name) == {StrToInt(CriterionOf(name).levels[j].k).n :
                             j \in 1..Len(CriterionOf(name).levels)}
       IN  /\ Len(rubric) = Len(list)
           /\ \A i \in 1..Len(rubric) : \A k \in 0..rubric[i].max_score :
                k \notin given(list[i]) => rubric[i].levels[k] = Placeholder(k)

\* the reply gave max_score 3 with the levels 3 and 0: the cached criterion
\* has the levels 0..3, 1 and 2 with the placeholder
C5_MiddleLevelsFilled ==
  \E id \in DOMAIN parsed_rubrics : \E i \in 1..Len(parsed_rubrics[id]) :
    /\ parsed_rubrics[id][i].max_score = 3
    /\ DOMAIN parsed_rubrics[id][i].levels = 0..3
    /\ parsed_rubrics[id][i].levels[1] = Placeholder(1)
    /\ parsed_rubrics[id][i].levels[2] = Placeholder(2)
    /\ parsed_rubrics[id][i].levels[3] = JStr(W_Excellent)

\* C6: a scoring request (score_essay or score_essay_pdf) whose rubric_id
\* is no key of parsed_rubrics gets 404 "Unknown rubric_id", makes no oracle
\* call and no text extraction, and leaves parsed_rubrics as it was, with
\* the client initialized or not
C6_UnknownRubricFirst ==
  [][(request'.op \in ScoreOps /\ request'.rubric_id \notin DOMAIN parsed_rubrics)
       => /\ response' = Error(404, "Unknown rubric_id")
          /\ oracle_calls' = << >>
          /\ extract_calls' = 0
          /\ parsed_rubrics' = parsed_rubrics]_vars

\* score_essay got 404 for an unknown rubric_id with the client None
C6_NotFoundWithoutClient ==
  /\ request.op = "score_essay"
  /\ ~genai_client
  /\ request.rubric_id \notin DOMAIN parsed_rubrics
  /\ response.status = 404

\* C7: a rubric_id of parsed_rubrics stays in it with the rubric it has, over
\* every step; and a scoring request for a rubric_id that a parse_rubric
\* returned never gets 404
C7_AppendOnly ==
  [][/\ \A id \in DOMAIN parsed_rubrics :
          /\ id \in DOMAIN parsed_rubrics'
          /\ parsed_rubrics'[id] = parsed_rubrics[id]
     /\ (request'.op \in ScoreOps
           /\ request'.rubric_id \in {issued[t] : t \in DOMAIN issued})
          => response'.status # 404]_vars

\* with two rubrics cached, score_essay scored the one a parse_rubric
\* returned
C7_IssuedIdScored ==
  /\ request.op = "score_essay"
  /\ request.rubric_id \in {issued[t] : t \in DOMAIN issued}
  /\ response.status = 200
  /\ Cardinality(DOMAIN parsed_rubrics) = 2
  /\ Cardinality(DOMAIN issued) >= 2

\* C8: no two criteria of a cached rubric have the same key, whatever array
\* the oracle returned
C8_UniqueKeys ==
  \A id \in DOMAIN parsed_rubrics :
    \A i, j \in 1..Len(parsed_rubrics[id]) :
      i # j => parsed_rubrics[id][i].key # parsed_rubrics[id][j].key

\* C9: a reply that is strict JSON once its fences are stripped is parsed to
\* that JSON value: parse_rubric validates json.loads of the stripped text,
\* and score_essay reads its score, snippet and suggestion from json.loads
\* of the stripped text
C9_StrictJsonUnaltered ==
  /\ (request.op = "parse_rubric" /\ oracle_calls # << >>
        /\ oracle_calls[1].reply \in TextRubricReplies) =>
       LET text == RubricText(oracle_calls[1].reply)
       IN  json_loads(StripFences(text)).ok =>
             ParseRubricReply(text) = json_loads(StripFences(text))
  /\ request.op \in ScoreOps =>
       \A i \in 1..Len(oracle_calls) :
         oracle_calls[i].reply \in TextScoreReplies =>
           LET text == ScoreText(oracle_calls[i].reply)
               ms   == parsed_rubrics[request.rubric_id][i].max_score
           IN  json_loads(StripFences(text)).ok =>
                 ReadReply(text, ms) = ScoreFields(json_loads(StripFences(text)), ms)

\* C10: no cached rubric is empty, and a scoring request that returns 200
\* returns at least one result
C10_NoEmptySchema ==
  /\ \A id \in DOMAIN parsed_rubrics : Len(parsed_rubrics[id]) >= 1
  /\ (request.op \in ScoreOps /\ response.status = 200) =>
       Len(response.results) >= 1

StructOps == {"detect_sections", "structure_pdf"}

\* C11: every Section that detect_sections or structure_pdf returns has a
\* text that is not empty after trimming, whatever the input
C11_NoEmptySection ==
  request.op \in StructOps =>
    \A i \in 1..Len(response.results) : strip(response.results[i].text) # << >>

\* C12: when fewer than two lines of the input are headings and the input
\* has two or more blank-line-delimited paragraphs, the first Section
\* returned is the first paragraph under the name Introduction and the last
\* one is the last paragraph under the name Conclusion
C12_ParagraphFallback ==
  (request.op \in StructOps /\ response.status = 200) =>
    LET lines    == split(request.text)
        heads    == {i \in 1..Len(lines) : HdrMatch(lines[i]) # 0}
        nonblank == {i \in 1..Len(lines) : strip(lines[i]) # << >>}
        starts   == {i \in nonblank : (i - 1) \notin nonblank}
        first    == CHOOSE a \in starts : \A b \in starts : a <= b
        last     == CHOOSE a \in starts : \A b \in starts : b <= a
        end(a)   == CHOOSE e \in nonblank :
                      /\ e >= a
                      /\ (a..e) \subseteq nonblank
                      /\ (e + 1) \notin nonblank
        para(a)  == strip(join(SubSeq(lines, a, end(a))))
    IN  (Cardinality(heads) < 2 /\ Cardinality(starts) >= 2) =>
          /\ response.results # << >>
          /\ response.results[1] = Section(HeaderWords[1], para(first))
          /\ response.results[Len(response.results)] =
               Section(HeaderWords[2], para(last))

\* C13: a parse_rubric request makes at most one oracle call, and none when
\* its rubric_id is cached or the client is None; a scoring request makes
\* at most one oracle call per criterion of the rubric, and no two for the
\* same criterion
C13_NoSecondCall ==
  [][/\ request'.op = "parse_rubric" =>
          /\ Len(oracle_calls') <= 1
          /\ (RubricId(request'.rubric_text) \in DOMAIN parsed_rubrics
                \/ ~genai_client) => oracle_calls' = << >>
     /\ request'.op \in ScoreOps =>
          /\ Len(oracle_calls') <=
               (IF request'.rubric_id \in DOMAIN parsed_rubrics
                THEN Len(parsed_rubrics[request'.rubric_id]) ELSE 0)
          /\ \A i, j \in 1..Len(oracle_calls') :
               i # j => oracle_calls'[i].criterion # oracle_calls'[j].criterion]_vars

\* parse_rubric got a reply that no repair could parse and failed after its
\* one call
C13_OneCallThenFailed ==
  /\ request.op = "parse_rubric"
  /\ response.detail = "AI returned invalid JSON"
  /\ Len(oracle_calls) = 1
  /\ oracle_calls[1].reply.kind = "prose"

\* C14: the oracle calls of a scoring request are for the criteria 1, 2, ...
\* in the order of the rubric; a request that returns 200 made one for each;
\* and when the call for criterion i raises, or its reply cannot be parsed
\* or has no integer score, the request fails with no results, and the call
\* for i is the last one it made
C14_OrderedFailFast ==
  request.op \in ScoreOps =>
    /\ \A i \in 1..Len(oracle_calls) : oracle_calls[i].criterion = i
    /\ (response.status = 200 /\ request.rubric_id \in DOMAIN parsed_rubrics) =>
         Len(oracle_calls) = Len(parsed_rubrics[request.rubric_id])
    /\ \A i \in 1..Len(oracle_calls) :
         oracle_calls[i].reply.kind \in
             {"raise", "no_candidates", "prose", "no_score", "null_score", "list"}
           => /\ response.status = 500
              /\ response.results = << >>
              /\ i = Len(oracle_calls)
    /\ (response.status # 200 /\ oracle_calls # << >>) =>
         /\ response.results = << >>
         /\ Len(oracle_calls) <= Len(parsed_rubrics[request.rubric_id])
         /\ \A i \in 1..Len(oracle_calls) :
              (ScoreItem(parsed_rubrics[request.rubric_id][i],
                         oracle_calls[i].reply).detail # "")
                <=> (i = Len(oracle_calls))

\* score_essay failed on the first of two criteria, on a reply without a
\* score, and made no call for the second
C14_FailedOnFirst ==
  /\ request.op = "score_essay"
  /\ response.status = 500
  /\ Len(parsed_rubrics[request.rubric_id]) = 2
  /\ Len(oracle_calls) = 1
  /\ oracle_calls[1].reply.kind = "no_score"

=============================================================================
